---- MODULE Spec2Model ----
(***************************************************************************)
(* Model of graph_connectivity.go: ReadGraph, the three DFS analyses       *)
(* (ArticulationPointsAndBridges, BiconnectedComponents,                   *)
(* ConnectedComponents) and main.  Native recursion of the dfs closures is *)
(* modelled by an explicit sequence of activation records ("calls"): one   *)
(* record per active Go invocation of dfs.                                 *)
(***************************************************************************)
EXTENDS Integers, Sequences, FiniteSets, TLC

VARIABLES
    args,               \* os.Args[1:]
    file,               \* the input file: [exists, data], data a sequence of int16
    pc,                 \* position of main
    outFile,            \* main's outFile (*outputFile)
    inputFile,          \* main's inputFile (flag.Arg(0))
    g,                  \* main's graph: [Vertices, AdjList]
    apb,                \* locals of the running ArticulationPointsAndBridges
    bc,                 \* locals of the running BiconnectedComponents
    ccs,                \* locals of the running ConnectedComponents
    articulationPoints, \* main's articulationPoints
    bridges,            \* main's bridges
    bcc,                \* main's bcc
    cc,                 \* main's cc
    out,                \* the output file: [created, name, data]
    wi,                 \* index of the next write of the report
    err,                \* main's err (TRUE: non-nil)
    exit,               \* <<status>> once the process has exited, <<>> before
    stdout              \* TRUE once the success message is printed

vars == <<args, file, pc, outFile, inputFile, g, apb, bc, ccs,
          articulationPoints, bridges, bcc, cc, out, wi, err, exit, stdout>>

-----------------------------------------------------------------------------
(* Bounds of the model. *)

\* largest graph size N enumerated for the analyses
MaxN == 4

\* largest graph size N enumerated for whole runs of main
MainMaxN == 3

-----------------------------------------------------------------------------
(* Program constants. *)

\* parent[i] = -1: no parent
NoParent == -1

\* log.Fatalf exits with status 1
FatalStatus == 1

\* the flag package (flag.ExitOnError) exits with status 2
FlagErrorStatus == 2

DefaultOutput == "output.txt"

-----------------------------------------------------------------------------
(* Helpers. *)

min(a, b) == IF a < b THEN a ELSE b

Range(s) == {s[k] : k \in 1..Len(s)}

Last(s) == s[Len(s)]

Front(s) == SubSeq(s, 1, Len(s) - 1)

\* all orderings of a finite set, as sequences (Go map iteration order)
RECURSIVE Orderings(_)
Orderings(S) ==
    IF S = {} THEN {<<>>}
    ELSE UNION {{<<x>> \o t : t \in Orderings(S \ {x})} : x \in S}

-----------------------------------------------------------------------------
(* Graph, NewGraph, AddEdge, ReadGraph. *)

NewGraph(vertices) ==
    [Vertices |-> vertices, AdjList |-> [i \in 0..(vertices - 1) |-> <<>>]]

AddEdge(gr, u, v) ==
    LET a1 == [gr.AdjList EXCEPT ![u] = Append(@, v)]
        a2 == [a1 EXCEPT ![v] = Append(@, u)]
    IN  [gr EXCEPT !.AdjList = a2]

\* adjMatrix[i][j] as read from the file: the word after the size, row-major
MatrixAt(data, size, i, j) == data[1 + i * size + j + 1]

\* the condition of line 73
HasEdge(data, size, i, j) == MatrixAt(data, size, i, j) # 0 /\ i < j

\* the conversion loops of lines 71-77, cell k = i * size + j onwards
RECURSIVE Convert(_, _, _, _)
Convert(gr, data, size, k) ==
    IF k >= size * size THEN gr
    ELSE LET i == k \div size
             j == k % size
         IN  Convert(IF HasEdge(data, size, i, j) THEN AddEdge(gr, i, j) ELSE gr,
                     data, size, k + 1)

\* ReadGraph: [err, graph]; err is "" on success
ReadGraph(f) ==
    IF ~f.exists THEN [err |-> "open", graph |-> NewGraph(0)]
    ELSE IF Len(f.data) < 1 THEN [err |-> "size", graph |-> NewGraph(0)]
    ELSE IF f.data[1] <= 0 THEN [err |-> "invalid", graph |-> NewGraph(0)]
    ELSE IF Len(f.data) < 1 + f.data[1] * f.data[1]
         THEN [err |-> "matrix", graph |-> NewGraph(0)]
    ELSE [err |-> "",
          graph |-> Convert(NewGraph(f.data[1]), f.data, f.data[1], 0)]

Idle == [active |-> FALSE]

-----------------------------------------------------------------------------
(* ArticulationPointsAndBridges. *)

\* lines 85-94
APInit(n) ==
    [active |-> TRUE,
     visited |-> [i \in 0..(n - 1) |-> FALSE],
     discovery |-> [i \in 0..(n - 1) |-> 0],
     low |-> [i \in 0..(n - 1) |-> 0],
     parent |-> [i \in 0..(n - 1) |-> NoParent],
     time |-> 0,
     ap |-> {},
     br |-> <<>>,
     root |-> 0,
     calls |-> <<>>]

\* a call dfs(u) and lines 99-103 of the callee
APEnter(st, u) ==
    [st EXCEPT !.visited[u] = TRUE,
               !.discovery[u] = st.time,
               !.low[u] = st.time,
               !.time = st.time + 1,
               !.calls = Append(@, [u |-> u, i |-> 1, children |-> 0])]

\* line 116
IsRootAP(parentU, children) == parentU = NoParent /\ children > 1

\* line 124 with the comparison made strict
MutIsNonRootAP(parentU, lowV, discU) == parentU # NoParent /\ lowV > discU

\* line 124
IsNonRootAP(parentU, lowV, discU) == parentU # NoParent /\ lowV >= discU

\* line 132 with the comparison made non-strict
MutIsBridge(lowV, discU) == lowV >= discU

\* line 132
IsBridge(lowV, discU) == lowV > discU

\* line 140 without the test against the parent
MutIsBackEdgeAP(v, parentU) == TRUE

\* line 140
IsBackEdgeAP(v, parentU) == v # parentU

\* line 84 / 301: main calls the analysis
APCall ==
    /\ pc = "callAP"
    /\ apb' = APInit(g.Vertices)
    /\ pc' = "inAP"
    /\ UNCHANGED <<args, file, outFile, inputFile, g, bc, ccs, articulationPoints,
                   bridges, bcc, cc, out, wi, err, exit, stdout>>

\* lines 152-156: one iteration of the root loop
APRootLoop ==
    /\ pc = "inAP"
    /\ apb.calls = <<>>
    /\ apb.root < g.Vertices
    /\ apb' = IF ~apb.visited[apb.root]
              THEN APEnter(apb, apb.root)
              ELSE [apb EXCEPT !.root = @ + 1]
    /\ UNCHANGED <<args, file, pc, outFile, inputFile, g, bc, ccs,
                   articulationPoints, bridges, bcc, cc, out, wi, err, exit, stdout>>

\* lines 105-109 and 140-143: the top invocation looks at its next neighbour
APNeighbor ==
    /\ pc = "inAP"
    /\ apb.calls # <<>>
    /\ LET d == Len(apb.calls)
           fr == apb.calls[d]
           u == fr.u
       IN  /\ fr.i <= Len(g.AdjList[u])
           /\ LET v == g.AdjList[u][fr.i]
              IN  apb' =
                    IF ~apb.visited[v]
                    THEN APEnter([apb EXCEPT !.calls[d].children = @ + 1,
                                             !.parent[v] = u], v)
                    ELSE IF IsBackEdgeAP(v, apb.parent[u])
                    THEN [apb EXCEPT !.low[u] = min(@, apb.discovery[v]),
                                     !.calls[d].i = @ + 1]
                    ELSE [apb EXCEPT !.calls[d].i = @ + 1]
    /\ UNCHANGED <<args, file, pc, outFile, inputFile, g, bc, ccs,
                   articulationPoints, bridges, bcc, cc, out, wi, err, exit, stdout>>

\* line 149 then lines 111-134 of the caller (or the root loop's u++)
APReturn ==
    /\ pc = "inAP"
    /\ apb.calls # <<>>
    /\ LET d == Len(apb.calls)
           fr == apb.calls[d]
       IN  /\ fr.i > Len(g.AdjList[fr.u])
           /\ apb' =
                IF d = 1
                THEN [apb EXCEPT !.calls = <<>>, !.root = @ + 1]
                ELSE LET c == apb.calls[d - 1]
                         u == c.u
                         v == fr.u
                         lowV == apb.low[v]
                         discU == apb.discovery[u]
                     IN  [apb EXCEPT
                            !.calls = [Front(apb.calls) EXCEPT ![d - 1].i = @ + 1],
                            !.low[u] = min(@, lowV),
                            !.ap = IF \/ IsRootAP(apb.parent[u], c.children)
                                      \/ IsNonRootAP(apb.parent[u], lowV, discU)
                                   THEN @ \cup {u} ELSE @,
                            !.br = IF IsBridge(lowV, discU)
                                   THEN Append(@, <<u, v>>) ELSE @]
    /\ UNCHANGED <<args, file, pc, outFile, inputFile, g, bc, ccs,
                   articulationPoints, bridges, bcc, cc, out, wi, err, exit, stdout>>

\* lines 159-163: the map is collected in an unspecified order
APFinish ==
    /\ pc = "inAP"
    /\ apb.calls = <<>>
    /\ apb.root >= g.Vertices
    /\ \E order \in Orderings(apb.ap) : articulationPoints' = order
    /\ bridges' = apb.br
    /\ apb' = Idle
    /\ pc' = "callBCC"
    /\ UNCHANGED <<args, file, outFile, inputFile, g, bc, ccs, bcc, cc, out, wi,
                   err, exit, stdout>>

-----------------------------------------------------------------------------
(* BiconnectedComponents. *)

\* lines 169-178
BCCInit(n) ==
    [active |-> TRUE,
     visited |-> [i \in 0..(n - 1) |-> FALSE],
     discovery |-> [i \in 0..(n - 1) |-> 0],
     low |-> [i \in 0..(n - 1) |-> 0],
     parent |-> [i \in 0..(n - 1) |-> NoParent],
     time |-> 0,
     stack |-> <<>>,
     bcc |-> <<>>,
     root |-> 0,
     calls |-> <<>>]

\* a call dfs(u) and lines 183-186 of the callee
BCCEnter(st, u) ==
    [st EXCEPT !.visited[u] = TRUE,
               !.discovery[u] = st.time,
               !.low[u] = st.time,
               !.time = st.time + 1,
               !.calls = Append(@, [u |-> u, i |-> 1, popping |-> FALSE,
                                    component |-> <<>>])]

\* line 204 with the comparison made strict
MutClosesComponent(lowV, discU) == lowV > discU

\* line 204
ClosesComponent(lowV, discU) == lowV >= discU

\* line 213 with the edge's ends exchanged
MutIsClosingEdge(edge, u, v) == edge[1] = v /\ edge[2] = u

\* line 213
IsClosingEdge(edge, u, v) == edge[1] = u /\ edge[2] = v

\* line 219 without the comparison of discovery times
MutIsBackEdgeBCC(v, parentU, discV, discU) == v # parentU

\* line 219
IsBackEdgeBCC(v, parentU, discV, discU) == v # parentU /\ discV < discU

\* lines 234-237: the flush after a tree, [stack, bcc]
Flush(stack, comps) ==
    IF Len(stack) > 0
    THEN [stack |-> <<>>, bcc |-> Append(comps, stack)]
    ELSE [stack |-> stack, bcc |-> comps]

\* line 168 / 304: main calls the analysis
BCCCall ==
    /\ pc = "callBCC"
    /\ bc' = BCCInit(g.Vertices)
    /\ pc' = "inBCC"
    /\ UNCHANGED <<args, file, outFile, inputFile, g, apb, ccs, articulationPoints,
                   bridges, bcc, cc, out, wi, err, exit, stdout>>

\* lines 230-232: one iteration of the root loop
BCCRootLoop ==
    /\ pc = "inBCC"
    /\ bc.calls = <<>>
    /\ bc.root < g.Vertices
    /\ bc' = IF ~bc.visited[bc.root]
             THEN BCCEnter(bc, bc.root)
             ELSE [bc EXCEPT !.root = @ + 1]
    /\ UNCHANGED <<args, file, pc, outFile, inputFile, g, apb, ccs,
                   articulationPoints, bridges, bcc, cc, out, wi, err, exit, stdout>>

\* lines 188-192 and 219-221: the top invocation looks at its next neighbour
BCCNeighbor ==
    /\ pc = "inBCC"
    /\ bc.calls # <<>>
    /\ LET d == Len(bc.calls)
           fr == bc.calls[d]
           u == fr.u
       IN  /\ ~fr.popping
           /\ fr.i <= Len(g.AdjList[u])
           /\ LET v == g.AdjList[u][fr.i]
              IN  bc' =
                    IF ~bc.visited[v]
                    THEN BCCEnter([bc EXCEPT !.parent[v] = u,
                                             !.stack = Append(@, <<u, v>>)], v)
                    ELSE IF IsBackEdgeBCC(v, bc.parent[u], bc.discovery[v],
                                          bc.discovery[u])
                    THEN [bc EXCEPT !.low[u] = min(@, bc.discovery[v]),
                                    !.stack = Append(@, <<u, v>>),
                                    !.calls[d].i = @ + 1]
                    ELSE [bc EXCEPT !.calls[d].i = @ + 1]
    /\ UNCHANGED <<args, file, pc, outFile, inputFile, g, apb, ccs,
                   articulationPoints, bridges, bcc, cc, out, wi, err, exit, stdout>>

\* line 227 then lines 194-205 of the caller, or lines 234-237 of the root loop
BCCReturn ==
    /\ pc = "inBCC"
    /\ bc.calls # <<>>
    /\ LET d == Len(bc.calls)
           fr == bc.calls[d]
       IN  /\ ~fr.popping
           /\ fr.i > Len(g.AdjList[fr.u])
           /\ bc' =
                IF d = 1
                THEN LET fl == Flush(bc.stack, bc.bcc)
                     IN  [bc EXCEPT !.calls = <<>>,
                                    !.stack = fl.stack,
                                    !.bcc = fl.bcc,
                                    !.root = @ + 1]
                ELSE LET u == bc.calls[d - 1].u
                         v == fr.u
                         lowV == bc.low[v]
                     IN  IF ClosesComponent(lowV, bc.discovery[u])
                         THEN [bc EXCEPT
                                 !.calls = [Front(bc.calls) EXCEPT
                                              ![d - 1].popping = TRUE,
                                              ![d - 1].component = <<>>],
                                 !.low[u] = min(@, lowV)]
                         ELSE [bc EXCEPT
                                 !.calls = [Front(bc.calls) EXCEPT
                                              ![d - 1].i = @ + 1],
                                 !.low[u] = min(@, lowV)]
    /\ UNCHANGED <<args, file, pc, outFile, inputFile, g, apb, ccs,
                   articulationPoints, bridges, bcc, cc, out, wi, err, exit, stdout>>

\* lines 206-217: one iteration of the pop loop
BCCPop ==
    /\ pc = "inBCC"
    /\ bc.calls # <<>>
    /\ LET d == Len(bc.calls)
           fr == bc.calls[d]
           u == fr.u
       IN  /\ fr.popping
           /\ LET v == g.AdjList[u][fr.i]
              IN  bc' =
                    IF Len(bc.stack) = 0
                    THEN [bc EXCEPT !.bcc = Append(@, fr.component),
                                    !.calls[d].component = <<>>,
                                    !.calls[d].popping = FALSE,
                                    !.calls[d].i = @ + 1]
                    ELSE LET edge == Last(bc.stack)
                             component == Append(fr.component, edge)
                         IN  IF IsClosingEdge(edge, u, v)
                             THEN [bc EXCEPT !.stack = Front(@),
                                             !.bcc = Append(@, component),
                                             !.calls[d].component = <<>>,
                                             !.calls[d].popping = FALSE,
                                             !.calls[d].i = @ + 1]
                             ELSE [bc EXCEPT !.stack = Front(@),
                                             !.calls[d].component = component]
    /\ UNCHANGED <<args, file, pc, outFile, inputFile, g, apb, ccs,
                   articulationPoints, bridges, bcc, cc, out, wi, err, exit, stdout>>

\* line 241
BCCFinish ==
    /\ pc = "inBCC"
    /\ bc.calls = <<>>
    /\ bc.root >= g.Vertices
    /\ bcc' = bc.bcc
    /\ bc' = Idle
    /\ pc' = "callCC"
    /\ UNCHANGED <<args, file, outFile, inputFile, g, apb, ccs, articulationPoints,
                   bridges, cc, out, wi, err, exit, stdout>>

-----------------------------------------------------------------------------
(* ConnectedComponents. *)

\* lines 246-247
CCInit(n) ==
    [active |-> TRUE,
     visited |-> [i \in 0..(n - 1) |-> FALSE],
     components |-> <<>>,
     component |-> <<>>,
     root |-> 0,
     calls |-> <<>>]

\* a call dfs(u, component) and lines 252-253 of the callee
CCEnter(st, u) ==
    [st EXCEPT !.visited[u] = TRUE,
               !.component = Append(@, u),
               !.calls = Append(@, [u |-> u, i |-> 1])]

\* line 264 hoisted out of the root loop: the component is never renewed
MutFreshComponent(st) == st

\* line 264
FreshComponent(st) == [st EXCEPT !.component = <<>>]

\* line 255
Unvisited(visited, v) == ~visited[v]

\* line 245 / 307: main calls the analysis
CCCall ==
    /\ pc = "callCC"
    /\ ccs' = CCInit(g.Vertices)
    /\ pc' = "inCC"
    /\ UNCHANGED <<args, file, outFile, inputFile, g, apb, bc, articulationPoints,
                   bridges, bcc, cc, out, wi, err, exit, stdout>>

\* lines 262-265: one iteration of the root loop
CCRootLoop ==
    /\ pc = "inCC"
    /\ ccs.calls = <<>>
    /\ ccs.root < g.Vertices
    /\ ccs' = IF Unvisited(ccs.visited, ccs.root)
              THEN CCEnter(FreshComponent(ccs), ccs.root)
              ELSE [ccs EXCEPT !.root = @ + 1]
    /\ UNCHANGED <<args, file, pc, outFile, inputFile, g, apb, bc,
                   articulationPoints, bridges, bcc, cc, out, wi, err, exit, stdout>>

\* lines 254-257: the top invocation looks at its next neighbour
CCNeighbor ==
    /\ pc = "inCC"
    /\ ccs.calls # <<>>
    /\ LET d == Len(ccs.calls)
           fr == ccs.calls[d]
       IN  /\ fr.i <= Len(g.AdjList[fr.u])
           /\ LET v == g.AdjList[fr.u][fr.i]
              IN  ccs' = IF Unvisited(ccs.visited, v)
                         THEN CCEnter(ccs, v)
                         ELSE [ccs EXCEPT !.calls[d].i = @ + 1]
    /\ UNCHANGED <<args, file, pc, outFile, inputFile, g, apb, bc,
                   articulationPoints, bridges, bcc, cc, out, wi, err, exit, stdout>>

\* line 259 then the caller's loop, or line 266 of the root loop
CCReturn ==
    /\ pc = "inCC"
    /\ ccs.calls # <<>>
    /\ LET d == Len(ccs.calls)
           fr == ccs.calls[d]
       IN  /\ fr.i > Len(g.AdjList[fr.u])
           /\ ccs' = IF d = 1
                     THEN [ccs EXCEPT !.calls = <<>>,
                                      !.components = Append(@, ccs.component),
                                      !.root = @ + 1]
                     ELSE [ccs EXCEPT !.calls = [Front(ccs.calls) EXCEPT
                                                   ![d - 1].i = @ + 1]]
    /\ UNCHANGED <<args, file, pc, outFile, inputFile, g, apb, bc,
                   articulationPoints, bridges, bcc, cc, out, wi, err, exit, stdout>>

\* line 270
CCFinish ==
    /\ pc = "inCC"
    /\ ccs.calls = <<>>
    /\ ccs.root >= g.Vertices
    /\ cc' = ccs.components
    /\ ccs' = Idle
    /\ pc' = "create"
    /\ UNCHANGED <<args, file, outFile, inputFile, g, apb, bc, articulationPoints,
                   bridges, bcc, out, wi, err, exit, stdout>>

-----------------------------------------------------------------------------
(* main: command line. *)

\* the name of the one file the file system holds for reading
InputName == "in"

\* what flag.Parse sees in a command-line word: whether it has flag syntax
\* (starts with "-" and is longer than one character), the flag's name, and
\* the value given with "="
FlagSyntax ==
    [w \in {"-o", "--o", "-o=out", "-x", "--", "in", "out"} |->
       CASE w = "-o"     -> [flag |-> TRUE, name |-> "o", hasValue |-> FALSE, value |-> ""]
         [] w = "--o"    -> [flag |-> TRUE, name |-> "o", hasValue |-> FALSE, value |-> ""]
         [] w = "-o=out" -> [flag |-> TRUE, name |-> "o", hasValue |-> TRUE, value |-> "out"]
         [] w = "-x"     -> [flag |-> TRUE, name |-> "x", hasValue |-> FALSE, value |-> ""]
         [] w = "--"     -> [flag |-> TRUE, name |-> "", hasValue |-> FALSE, value |-> ""]
         [] OTHER        -> [flag |-> FALSE, name |-> "", hasValue |-> FALSE, value |-> ""]]

\* flag.Parse with the single string flag "o" defined (lines 283-284):
\* [status, o, rest]; parsing stops at the first word that is no flag
RECURSIVE FlagParse(_, _)
FlagParse(rest, o) ==
    IF rest = <<>> THEN [status |-> "ok", o |-> o, rest |-> rest]
    ELSE LET w == FlagSyntax[Head(rest)]
         IN  IF ~w.flag THEN [status |-> "ok", o |-> o, rest |-> rest]
             ELSE IF Head(rest) = "--"
                  THEN [status |-> "ok", o |-> o, rest |-> Tail(rest)]
             ELSE IF w.name # "o"
                  THEN [status |-> "undefined", o |-> o, rest |-> Tail(rest)]
             ELSE IF w.hasValue THEN FlagParse(Tail(rest), w.value)
             ELSE IF Tail(rest) # <<>>
                  THEN FlagParse(Tail(Tail(rest)), Head(Tail(rest)))
             ELSE [status |-> "needsArgument", o |-> o, rest |-> Tail(rest)]

\* os.Open(filename) inside ReadGraph
Open(name) == IF name = InputName THEN file ELSE [exists |-> FALSE, data |-> <<>>]

\* lines 283-292
MainParse ==
    /\ pc = "parse"
    /\ LET r == FlagParse(args, DefaultOutput)
       IN  IF r.status # "ok"
           THEN /\ pc' = "exited"
                /\ exit' = <<FlagErrorStatus>>
                /\ UNCHANGED <<inputFile, outFile>>
           ELSE IF Len(r.rest) < 1
           THEN /\ pc' = "exited"
                /\ exit' = <<FatalStatus>>
                /\ UNCHANGED <<inputFile, outFile>>
           ELSE /\ inputFile' = r.rest[1]
                /\ outFile' = r.o
                /\ pc' = "read"
                /\ UNCHANGED exit
    /\ UNCHANGED <<args, file, g, apb, bc, ccs, articulationPoints, bridges, bcc,
                   cc, out, wi, err, stdout>>

\* lines 295-298
MainRead ==
    /\ pc = "read"
    /\ LET r == ReadGraph(Open(inputFile))
       IN  IF r.err # ""
           THEN /\ pc' = "exited"
                /\ exit' = <<FatalStatus>>
                /\ err' = TRUE
                /\ UNCHANGED g
           ELSE /\ g' = r.graph
                /\ pc' = "callAP"
                /\ UNCHANGED <<exit, err>>
    /\ UNCHANGED <<args, file, outFile, inputFile, apb, bc, ccs, articulationPoints,
                   bridges, bcc, cc, out, wi, stdout>>

-----------------------------------------------------------------------------
(* main: the report. *)

Lit(s) == [s |-> s, a |-> 0, b |-> 0]

\* fmt.Sprintf with one and with two %d
Fmt1(s, a) == [s |-> s, a |-> a, b |-> 0]

Fmt2(s, a, b) == [s |-> s, a |-> a, b |-> b]

\* one f.WriteString: its text, and whether main tests the error it returns
Checked(text) == [text |-> text, checked |-> TRUE, assigns |-> TRUE]

\* lines 323 and 334: err is assigned and never tested
Assigned(text) == [text |-> text, checked |-> FALSE, assigns |-> TRUE]

\* lines 325-330 and 336-341: the error is discarded
Discarded(text) == [text |-> text, checked |-> FALSE, assigns |-> FALSE]

RECURSIVE Concat(_)
Concat(ss) == IF ss = <<>> THEN <<>> ELSE Head(ss) \o Concat(Tail(ss))

\* lines 323-331
WritesAP(aps) ==
    <<Assigned(Lit("Articulation points:\n"))>> \o
    (IF Len(aps) = 0
     THEN <<Discarded(Lit("None\n"))>>
     ELSE [k \in 1..Len(aps) |-> Discarded(Fmt1("%d ", aps[k]))] \o
          <<Discarded(Lit("\n"))>>)

\* lines 334-342
WritesBridges(brs) ==
    <<Assigned(Lit("Bridges:\n"))>> \o
    (IF Len(brs) = 0
     THEN <<Discarded(Lit("None\n"))>>
     ELSE [k \in 1..Len(brs) |-> Discarded(Fmt2("(%d, %d) ", brs[k][1], brs[k][2]))] \o
          <<Discarded(Lit("\n"))>>)

\* lines 345-364
WritesBCC(comps) ==
    <<Checked(Lit("\nb) Biconnected components:\n"))>> \o
    Concat([k \in 1..Len(comps) |->
              <<Checked(Fmt1("Component %d:\n", k))>> \o
              [e \in 1..Len(comps[k]) |->
                 Checked(Fmt2("(%d, %d) ", comps[k][e][1], comps[k][e][2]))] \o
              <<Checked(Lit("\n"))>>])

\* lines 367-386
WritesCC(comps) ==
    <<Checked(Lit("\nc) Connected components:\n"))>> \o
    Concat([k \in 1..Len(comps) |->
              <<Checked(Fmt1("Component %d: ", k))>> \o
              [e \in 1..Len(comps[k]) |-> Checked(Fmt1("%d ", comps[k][e]))] \o
              <<Checked(Lit("\n"))>>])

\* lines 316-386: the writes main performs, in order (the literal texts are
\* given in English)
Report ==
    <<Checked(Lit("a) Bridges and articulation points:\n"))>> \o
    WritesAP(articulationPoints) \o WritesBridges(bridges) \o
    WritesBCC(bcc) \o WritesCC(cc)

\* lines 310-314
MainCreate ==
    /\ pc = "create"
    /\ \E ok \in BOOLEAN :
         IF ok
         THEN /\ out' = [created |-> TRUE, name |-> outFile, data |-> <<>>]
              /\ pc' = "write"
              /\ wi' = 1
              /\ err' = FALSE
              /\ UNCHANGED exit
         ELSE /\ pc' = "exited"
              /\ exit' = <<FatalStatus>>
              /\ err' = TRUE
              /\ UNCHANGED <<out, wi>>
    /\ UNCHANGED <<args, file, outFile, inputFile, g, apb, bc, ccs,
                   articulationPoints, bridges, bcc, cc, stdout>>

\* one f.WriteString of lines 316-386, which succeeds or fails
MainWrite ==
    /\ pc = "write"
    /\ wi <= Len(Report)
    /\ \E ok \in BOOLEAN :
         LET w == Report[wi]
         IN  /\ out' = IF ok THEN [out EXCEPT !.data = Append(@, w.text)] ELSE out
             /\ err' = IF w.assigns THEN ~ok ELSE err
             /\ IF w.checked /\ ~ok
                THEN /\ pc' = "exited"
                     /\ exit' = <<FatalStatus>>
                     /\ UNCHANGED wi
                ELSE /\ wi' = wi + 1
                     /\ UNCHANGED <<pc, exit>>
    /\ UNCHANGED <<args, file, outFile, inputFile, g, apb, bc, ccs,
                   articulationPoints, bridges, bcc, cc, stdout>>

\* line 389 and the return of main
MainDone ==
    /\ pc = "write"
    /\ wi > Len(Report)
    /\ stdout' = TRUE
    /\ exit' = <<0>>
    /\ pc' = "done"
    /\ UNCHANGED <<args, file, outFile, inputFile, g, apb, bc, ccs,
                   articulationPoints, bridges, bcc, cc, out, wi, err>>

-----------------------------------------------------------------------------
(* Specifications. *)

\* the pairs i < j of 0..n-1
Pairs(n) == {p \in (0..(n - 1)) \X (0..(n - 1)) : p[1] < p[2]}

\* a well-formed input file: size n, then the symmetric 0/1 matrix of edges E
MatrixFile(n, E) ==
    [exists |-> TRUE,
     data |-> <<n>> \o
              [k \in 1..(n * n) |->
                 LET i == (k - 1) \div n
                     j == (k - 1) % n
                 IN  IF <<i, j>> \in E \/ <<j, i>> \in E THEN 1 ELSE 0]]

\* input files whose content is not a symmetric 0/1 matrix, or is no graph
OddFiles ==
    {[exists |-> FALSE, data |-> <<>>],
     [exists |-> TRUE, data |-> <<>>],
     [exists |-> TRUE, data |-> <<0>>],
     [exists |-> TRUE, data |-> <<-1, 0>>],
     [exists |-> TRUE, data |-> <<2, 0, 1>>],
     [exists |-> TRUE, data |-> <<1, 1>>],
     [exists |-> TRUE, data |-> <<2, 1, 0, 1, 1>>],
     [exists |-> TRUE, data |-> <<2, 0, -3, 0, 0>>]}

ArgLines ==
    {<<>>, <<"in">>, <<"in", "-o", "out">>, <<"-o", "out", "in">>,
     <<"-o=out", "in">>, <<"--o", "out", "in">>, <<"-o">>, <<"-x", "in">>,
     <<"--", "in">>, <<"out">>}

Start ==
    /\ apb = Idle
    /\ bc = Idle
    /\ ccs = Idle
    /\ articulationPoints = <<>>
    /\ bridges = <<>>
    /\ bcc = <<>>
    /\ cc = <<>>
    /\ out = [created |-> FALSE, name |-> "", data |-> <<>>]
    /\ wi = 0
    /\ err = FALSE
    /\ exit = <<>>
    /\ stdout = FALSE

\* main about to run the analyses on a graph ReadGraph has built
Init ==
    /\ args = <<InputName>>
    /\ \E n \in 1..MaxN : \E E \in SUBSET Pairs(n) : file = MatrixFile(n, E)
    /\ inputFile = InputName
    /\ outFile = DefaultOutput
    /\ g = ReadGraph(file).graph
    /\ pc = "callAP"
    /\ Start

Next ==
    \/ APCall \/ APRootLoop \/ APNeighbor \/ APReturn \/ APFinish
    \/ BCCCall \/ BCCRootLoop \/ BCCNeighbor \/ BCCReturn \/ BCCPop \/ BCCFinish
    \/ CCCall \/ CCRootLoop \/ CCNeighbor \/ CCReturn \/ CCFinish

Spec == Init /\ [][Next]_vars

\* a whole run of main
InitMain ==
    /\ args \in ArgLines
    /\ file \in OddFiles \cup
                UNION {{MatrixFile(n, E) : E \in SUBSET Pairs(n)} : n \in 1..MainMaxN}
    /\ inputFile = ""
    /\ outFile = ""
    /\ g = NewGraph(0)
    /\ pc = "parse"
    /\ Start

NextMain ==
    \/ MainParse \/ MainRead \/ Next \/ MainCreate \/ MainWrite \/ MainDone

SpecMain == InitMain /\ [][NextMain]_vars

-----------------------------------------------------------------------------
(* Graph theory by brute force, for stating the properties. *)

V == 0..(g.Vertices - 1)

\* an ordered pair as an unordered one
Unordered(p) == {p[1], p[2]}

\* the edges of g, as two-element sets
Edges == UNION {{{u, w} : w \in Range(g.AdjList[u])} : u \in V}

\* the vertices of Vs joined to one of R by a path of Es within Vs
RECURSIVE Grow(_, _, _)
Grow(R, Vs, Es) ==
    LET R2 == R \cup {w \in Vs : \E x \in R : {x, w} \in Es}
    IN  IF R2 = R THEN R ELSE Grow(R2, Vs, Es)

ComponentCount(Vs, Es) == Cardinality({Grow({s}, Vs, Es) : s \in Vs})

WithoutVertex(Es, x) == {e \in Es : x \notin e}

\* removing any one vertex of the subgraph of Es leaves the others connected
NoInternalAP(Es) ==
    LET Vs == UNION Es
    IN  \A x \in Vs : ComponentCount(Vs \ {x}, WithoutVertex(Es, x)) <= 1

EdgesOf(component) == {Unordered(component[k]) : k \in 1..Len(component)}

\* g is a connected path on its N vertices
IsPathGraph ==
    /\ Cardinality(Edges) = g.Vertices - 1
    /\ ComponentCount(V, Edges) = 1
    /\ \A u \in V : Len(g.AdjList[u]) <= 2

\* the number of active native invocations of an analysis' dfs
Depth(st) == IF st.active THEN Len(st.calls) ELSE 0

-----------------------------------------------------------------------------
(* Properties. *)

\* C1: when ArticulationPointsAndBridges has returned, a vertex is in the
\* list of articulation points iff deleting it with its incident edges leaves
\* strictly more connected components than the graph has.
ArticulationPointsExact ==
    pc = "callBCC" =>
      \A v \in V :
        (v \in Range(articulationPoints)) <=>
          (ComponentCount(V \ {v}, WithoutVertex(Edges, v)) >
             ComponentCount(V, Edges))

\* C1 witness: a result with an articulation point and, beside it, a vertex
\* of degree two or more that is none
ArticulationPointsSeen ==
    /\ pc = "callBCC"
    /\ articulationPoints # <<>>
    /\ \E w \in V : w \notin Range(articulationPoints) /\ Len(g.AdjList[w]) >= 2

\* C2: when ArticulationPointsAndBridges has returned, every reported pair is
\* an edge of the graph, and an edge is reported (in either orientation) iff
\* deleting it strictly increases the number of connected components.
BridgesExact ==
    pc = "callBCC" =>
      /\ \A k \in 1..Len(bridges) : Unordered(bridges[k]) \in Edges
      /\ \A e \in Edges :
           (\E k \in 1..Len(bridges) : Unordered(bridges[k]) = e) <=>
             (ComponentCount(V, Edges \ {e}) > ComponentCount(V, Edges))

\* C2 witness: a result with a bridge, for a graph that also has an edge
\* that is no bridge
BridgesSeen ==
    /\ pc = "callBCC"
    /\ bridges # <<>>
    /\ \E e \in Edges : \A k \in 1..Len(bridges) : Unordered(bridges[k]) # e

\* the places <<k, j>> of the returned components that hold edge e
PlacesOf(e) ==
    {p \in (1..Len(bcc)) \X (1..Cardinality(Edges)) :
       p[2] <= Len(bcc[p[1]]) /\ Unordered(bcc[p[1]][p[2]]) = e}

\* C3: when BiconnectedComponents has returned, no component is empty, every
\* reported pair is an edge, and every edge of the graph is at exactly one
\* place of exactly one component.
BiconnectedPartitionEdges ==
    pc = "callCC" =>
      /\ \A k \in 1..Len(bcc) :
           /\ bcc[k] # <<>>
           /\ Len(bcc[k]) <= Cardinality(Edges)
           /\ \A j \in 1..Len(bcc[k]) : Unordered(bcc[k][j]) \in Edges
      /\ \A e \in Edges : Cardinality(PlacesOf(e)) = 1

\* C3 witness: a result of two or more components, one of them closed over
\* a back edge (three or more edges)
BiconnectedPartitionSeen ==
    /\ pc = "callCC"
    /\ Len(bcc) >= 2
    /\ \E k \in 1..Len(bcc) : Len(bcc[k]) >= 3

\* C4: when BiconnectedComponents has returned, every component of more than
\* one edge has no internal articulation point, and the union of two distinct
\* components always has one (every component is maximal).
BiconnectedMaximal ==
    pc = "callCC" =>
      /\ \A k \in 1..Len(bcc) : Len(bcc[k]) > 1 => NoInternalAP(EdgesOf(bcc[k]))
      /\ \A k, l \in 1..Len(bcc) :
           k # l => ~NoInternalAP(EdgesOf(bcc[k]) \cup EdgesOf(bcc[l]))

\* C4 witness: a result with a component of several edges next to another
\* component that shares a vertex with it
BiconnectedMaximalSeen ==
    /\ pc = "callCC"
    /\ \E k, l \in 1..Len(bcc) :
         /\ k # l
         /\ Len(bcc[k]) > 1
         /\ (UNION EdgesOf(bcc[k])) \cap (UNION EdgesOf(bcc[l])) # {}

\* the places <<k, j>> of the returned connected components that hold v
VertexPlaces(v) ==
    {p \in (1..Len(cc)) \X (1..g.Vertices) :
       p[2] <= Len(cc[p[1]]) /\ cc[p[1]][p[2]] = v}

\* C5: when ConnectedComponents has returned, every vertex is at exactly one
\* place of exactly one component, the components hold vertices only, and two
\* vertices share a component iff a path joins them.
ConnectedPartitionVertices ==
    pc = "create" =>
      /\ \A k \in 1..Len(cc) :
           Len(cc[k]) <= g.Vertices /\ Range(cc[k]) \subseteq V
      /\ \A v \in V : Cardinality(VertexPlaces(v)) = 1
      /\ \A u, v \in V :
           (\E k \in 1..Len(cc) : {u, v} \subseteq Range(cc[k])) <=>
             (v \in Grow({u}, V, Edges))

\* C5 witness: a result of several components, one of three or more vertices
ConnectedPartitionSeen ==
    /\ pc = "create"
    /\ Len(cc) >= 2
    /\ \E k \in 1..Len(cc) : Len(cc[k]) >= 3

\* C6: a run of main that prints the success message (or exits with status
\* 0) has had no write fail: every write of the report reached the file.
WriteFailureIsTerminal ==
    (stdout \/ exit = <<0>>) => Len(out.data) = Len(Report)

\* C7: invoked as <inputfile> -o <outputfile>, the file main creates is
\* <outputfile>; the default name is used only when no -o option is given.
DocumentedFormHonoursOutput ==
    out.created =>
      /\ args = <<"in", "-o", "out">> => out.name = "out"
      /\ out.name = DefaultOutput =>
           \A k \in 1..Len(args) : FlagSyntax[args[k]].name # "o"

\* C8: on a connected path graph of N >= 2 vertices, none of the three
\* analyses ever has N native invocations of dfs active at once.
NativeDepthBelowPathLength ==
    (g.Vertices >= 2 /\ IsPathGraph) =>
      /\ Depth(apb) < g.Vertices
      /\ Depth(bc) < g.Vertices
      /\ Depth(ccs) < g.Vertices

\* C9: in BiconnectedComponents the pop loop never finds the stack empty at
\* its head, and the stack is empty whenever a dfs launched by the root loop
\* is about to return (so the flush of lines 234-237 appends nothing).
EdgeStackEmptyAtRootReturn ==
    (pc = "inBCC" /\ bc.calls # <<>>) =>
      LET fr == Last(bc.calls)
      IN  /\ fr.popping => bc.stack # <<>>
          /\ (Len(bc.calls) = 1 /\ ~fr.popping /\ fr.i > Len(g.AdjList[fr.u]))
               => bc.stack = <<>>

\* C9 witness: a root dfs about to return after the pop loop has closed
\* a component of several edges
EdgeStackEmptySeen ==
    /\ pc = "inBCC"
    /\ Len(bc.calls) = 1
    /\ Last(bc.calls).i > Len(g.AdjList[Last(bc.calls).u])
    /\ \E k \in 1..Len(bc.bcc) : Len(bc.bcc[k]) >= 3

\* C10: when both low-link analyses have returned, an ordered pair is in the
\* bridge list iff a returned biconnected component is exactly that one edge
\* in that orientation; so there are as many bridges as one-edge components.
BridgesAreSingleEdgeComponents ==
    pc = "callCC" =>
      /\ \A u, v \in V :
           (\E k \in 1..Len(bridges) : bridges[k] = <<u, v>>) <=>
             (\E k \in 1..Len(bcc) : bcc[k] = <<(<<u, v>>)>>)
      /\ Len(bridges) = Cardinality({k \in 1..Len(bcc) : Len(bcc[k]) = 1})

\* C10 witness: both results at hand, with a bridge and with a component of
\* several edges
BridgesAreSingleEdgeSeen ==
    /\ pc = "callCC"
    /\ bridges # <<>>
    /\ \E k \in 1..Len(bcc) : Len(bcc[k]) > 1

====
